---- MODULE Spec2Model ----
(***************************************************************************)
(* Standard library descriptions of selene: the Field schema and its       *)
(* deserialization, StandardLibrary::from_name / inflate (with the nested  *)
(* merge), StandardLibrary::find_global, and the suggestion scan of        *)
(* possible_std.rs (possible_standard_library_notes,                       *)
(* possible_standard_libraries and the ROBLOX_BASE_STD once-cell).         *)
(***************************************************************************)
EXTENDS Naturals, Sequences, FiniteSets, TLC

VARIABLES
    mrg,        \* one call of inflate's nested fn merge(into, other)
    fg,         \* one call of StandardLibrary::find_global
    de,         \* one call of <Field as Deserialize>::deserialize
    registry,   \* the embedded texts behind the names! table of from_name
    stack,      \* the native call stack of from_name / inflate
    outcome,    \* what the outermost from_name / inflate call produced
    sug,        \* one call of possible_standard_library_notes
    cell,       \* the static ROBLOX_BASE_STD
    callers     \* the threads inside possible_standard_libraries

vars == <<mrg, fg, de, registry, stack, outcome, sug, cell, callers>>

(***************************************************************************)
(* Bounds of the model.                                                    *)
(***************************************************************************)
\* Most entries (keys, counted at every nesting level) of an enumerated globals map.
MaxEntries == 3
\* Most entries of an enumerated overriding map handed to merge.
MaxOverride == 2
\* Longest name path handed to find_global.
MaxPath == 3
\* Frames the native stack holds before the process faults.
MaxStack == 4
\* Threads calling possible_standard_libraries at once.
NumCallers == 2

(***************************************************************************)
(* Field, HashMap<String, Field>, Option                                   *)
(***************************************************************************)
Keys == {"a", "b"}

EmptyMap == [k \in {} |-> TRUE]

Function(arguments, method) ==
    [kind |-> "Function", arguments |-> arguments, method |-> method]

Property(writable) == [kind |-> "Property", writable |-> writable]

Table(children) == [kind |-> "Table", children |-> children]

Removed == [kind |-> "Removed"]

None == [kind |-> "None"]

Some(v) == [kind |-> "Some", value |-> v]

\* HashMap::remove
MapRemove(m, k) == [x \in DOMAIN m \ {k} |-> m[x]]

\* HashMap::insert
MapInsert(m, k, v) == [x \in DOMAIN m \cup {k} |-> IF x = k THEN v ELSE m[x]]

\* HashMap::get
MapGet(m, k) == IF k \in DOMAIN m THEN Some(m[k]) ELSE None

RECURSIVE Entries(_)
Entries(m) ==
    IF DOMAIN m = {} THEN 0
    ELSE LET k == CHOOSE x \in DOMAIN m : TRUE
         IN  1 + (IF m[k].kind = "Table" THEN Entries(m[k].children) ELSE 0)
               + Entries(MapRemove(m, k))

Leaves == {Function(<<>>, FALSE), Property("None"), Removed}

RECURSIVE MapsUpTo(_)
MapsUpTo(n) ==
    IF n = 0 THEN {EmptyMap}
    ELSE LET vals == Leaves \cup {Table(c) : c \in MapsUpTo(n - 1)}
             all  == UNION {[S -> vals] : S \in SUBSET Keys}
         IN  {m \in all : Entries(m) <= n}

FieldMaps == MapsUpTo(MaxEntries)

\* The merge example of the description of inflate.
ExampleBase ==
    [k \in {"a", "c"} |->
        IF k = "a" THEN Table([x \in {"b"} |-> Property("None")])
        ELSE Function(<<>>, FALSE)]

ExampleOverride ==
    [k \in {"a", "c", "e"} |->
        IF k = "a" THEN Table([x \in {"d"} |-> Property("full")])
        ELSE IF k = "c" THEN Removed
        ELSE Property("overridden")]

ExampleMerged ==
    [k \in {"a", "e"} |->
        IF k = "a"
        THEN Table([x \in {"b", "d"} |->
                       IF x = "b" THEN Property("None") ELSE Property("full")])
        ELSE Property("overridden")]

\* The pairs (into, other) merge is run on.
MergeInputs ==
    (FieldMaps \X MapsUpTo(MaxOverride)) \cup {<<ExampleBase, ExampleOverride>>}

(***************************************************************************)
(* fn merge(into, other), nested in StandardLibrary::inflate               *)
(***************************************************************************)
\* merge without the recursion into Table-vs-Table conflicts: the overriding
\* Table replaces the seed's.
RECURSIVE merge_shallow(_, _)
merge_shallow(into, other) ==
    IF DOMAIN other = {} THEN into
    ELSE LET k == CHOOSE x \in DOMAIN other : TRUE
             v == other[k]
         IN  merge_shallow(
                 IF v = Removed THEN MapRemove(into, k) ELSE MapInsert(into, k, v),
                 MapRemove(other, k))

\* One pass of `for (k, v) in other.drain()`: the entries leave `other` one by
\* one (a HashMap gives no order; the keys are distinct, so the order picked
\* here is one of the orders drain may produce).
RECURSIVE merge(_, _)
merge(into, other) ==
    IF DOMAIN other = {} THEN into
    ELSE LET k == CHOOSE x \in DOMAIN other : TRUE
             v == other[k]
             step ==
                 IF v = Removed
                 THEN MapRemove(into, k)
                 ELSE IF /\ k \in DOMAIN into
                         /\ v.kind = "Table"
                         /\ into[k].kind = "Table"
                      THEN MapInsert(into, k,
                               Table(merge(into[k].children, v.children)))
                      ELSE MapInsert(into, k, v)
         IN  merge(step, MapRemove(other, k))

MrgIdle == [pc |-> "idle"]

\* A call merge(&mut into, &mut other) about to run.
MergeInit == \E p \in MergeInputs :
    mrg = [pc |-> "call", into |-> p[1], other |-> p[2],
           seed |-> p[1], overriding |-> p[2]]

\* The call runs: `into` holds the merged map, `other` is drained.
MergeRun ==
    /\ mrg.pc = "call"
    /\ mrg' = [mrg EXCEPT !.pc = "returned",
                          !.into = merge(mrg.into, mrg.other),
                          !.other = EmptyMap]
    /\ UNCHANGED <<fg, de, registry, stack, outcome, sug, cell, callers>>

(***************************************************************************)
(* StandardLibrary::find_global                                            *)
(***************************************************************************)
Panic(message) == [kind |-> "Panic", message |-> message]

Segments == Keys \cup {"x"}

RECURSIVE SeqsUpTo(_, _)
SeqsUpTo(S, n) ==
    IF n = 0 THEN {<<>>}
    ELSE LET shorter == SeqsUpTo(S, n - 1)
         IN  shorter \cup {Append(p, s) : p \in {q \in shorter : Len(q) = n - 1}, s \in S}

\* The slices a caller can pass, the empty one included.
Paths == SeqsUpTo(Segments, MaxPath)

\* The loop `for name in names.iter().take(names.len() - 1)`, from its i-th
\* iteration on: Some(current) when it runs to its end, None on an early return.
RECURSIVE Traverse(_, _, _)
Traverse(current, names, i) ==
    IF i > Len(names) - 1 THEN Some(current)
    ELSE LET child == MapGet(current, names[i])
         IN  IF child.kind = "Some"
             THEN IF child.value.kind = "Table"
                  THEN Traverse(child.value.children, names, i + 1)
                  ELSE None
             ELSE None

\* find_global whose loop steps over a missing or non-Table segment instead of
\* returning None.
RECURSIVE TraverseLenient(_, _, _)
TraverseLenient(current, names, i) ==
    IF i > Len(names) - 1 THEN Some(current)
    ELSE LET child == MapGet(current, names[i])
         IN  IF child.kind = "Some" /\ child.value.kind = "Table"
             THEN TraverseLenient(child.value.children, names, i + 1)
             ELSE TraverseLenient(current, names, i + 1)

find_global_lenient(globals, names) ==
    IF names = <<>> THEN Panic("assertion failed: !names.is_empty()")
    ELSE MapGet(TraverseLenient(globals, names, 1).value, names[Len(names)])

find_global(globals, names) ==
    IF names = <<>> THEN Panic("assertion failed: !names.is_empty()")
    ELSE LET reached == Traverse(globals, names, 1)
         IN  IF reached = None THEN None
             ELSE MapGet(reached.value, names[Len(names)])

FgIdle == [pc |-> "idle"]

FindInit == \E g \in FieldMaps, p \in Paths :
    fg = [pc |-> "call", globals |-> g, names |-> p]

FindRun ==
    /\ fg.pc = "call"
    /\ fg' = [pc |-> "returned", globals |-> fg.globals, names |-> fg.names,
              result |-> find_global(fg.globals, fg.names)]
    /\ UNCHANGED <<mrg, de, registry, stack, outcome, sug, cell, callers>>

(***************************************************************************)
(* impl Deserialize for Field, over FieldSerde                             *)
(***************************************************************************)
Ok(v) == [kind |-> "Ok", value |-> v]

Err(message) == [kind |-> "Err", message |-> message]

\* Argument { required: Required::Required(None), argument_type: ArgumentType::Any }
AnyArgument == [required |-> Some(None), argument_type |-> "Any"]

FieldSerde(property, method, removed, writable, args, children) ==
    [property |-> property, method |-> method, removed |-> removed,
     writable |-> writable, args |-> args, children |-> children]

WritableOptions == {None, Some("new-fields"), Some("overridden"), Some("full")}

ArgsOptions == {None, Some(<<>>), Some(<<AnyArgument>>)}

\* Raw entries nested in another entry's flattened `children`.
RawChildren ==
    {FieldSerde(p, m, r, None, a, EmptyMap) :
        p \in BOOLEAN, m \in BOOLEAN, r \in BOOLEAN, a \in {None, Some(<<>>)}}

RawChildMaps == UNION {[S -> RawChildren] : S \in SUBSET Keys}

\* Raw entries of a document: every combination of the markers, over no
\* children or over a nested map of raw entries.
RawFields ==
    {FieldSerde(p, m, r, w, a, EmptyMap) :
        p \in BOOLEAN, m \in BOOLEAN, r \in BOOLEAN,
        w \in WritableOptions, a \in ArgsOptions}
    \cup
    {FieldSerde(p, m, r, None, a, c) :
        p \in BOOLEAN, m \in BOOLEAN, r \in BOOLEAN,
        a \in ArgsOptions, c \in RawChildMaps \ {EmptyMap}}

\* The decision with the removed marker looked at after the two validity checks.
FieldOfValidatedFirst(field_raw) ==
    LET is_function == field_raw.args # None \/ field_raw.method
    IN  IF ~field_raw.property /\ ~is_function /\ DOMAIN field_raw.children = {}
        THEN Err("can't determine what kind of field this is")
        ELSE IF field_raw.property /\ is_function
        THEN Err("field is both a property and a function")
        ELSE IF field_raw.removed
        THEN Ok(Removed)
        ELSE IF field_raw.property
        THEN Ok(Property(field_raw.writable))
        ELSE IF is_function
        THEN Ok(Function(IF field_raw.args = None THEN <<>> ELSE field_raw.args.value,
                         field_raw.method))
        ELSE Ok(Table(field_raw.children))

\* The decision of Field::deserialize on a FieldSerde whose children are Fields.
FieldOf(field_raw) ==
    IF field_raw.removed THEN Ok(Removed)
    ELSE LET is_function == field_raw.args # None \/ field_raw.method
         IN  IF ~field_raw.property /\ ~is_function /\ DOMAIN field_raw.children = {}
             THEN Err("can't determine what kind of field this is")
             ELSE IF field_raw.property /\ is_function
             THEN Err("field is both a property and a function")
             ELSE IF field_raw.property
             THEN Ok(Property(field_raw.writable))
             ELSE IF is_function
             THEN Ok(Function(IF field_raw.args = None THEN <<>> ELSE field_raw.args.value,
                              field_raw.method))
             ELSE Ok(Table(field_raw.children))

\* FieldSerde::deserialize(deserializer)?, then the decision: the flattened
\* children are Fields, deserialized by this same impl, and the first error
\* among them is the error of the whole entry.
RECURSIVE deserialize(_)
deserialize(raw) ==
    LET kids == [k \in DOMAIN raw.children |-> deserialize(raw.children[k])]
        bad  == {k \in DOMAIN kids : kids[k].kind = "Err"}
    IN  IF bad # {}
        THEN kids[CHOOSE k \in bad : TRUE]
        ELSE FieldOf([raw EXCEPT !.children = [k \in DOMAIN kids |-> kids[k].value]])

DeIdle == [pc |-> "idle"]

DeserializeInit == \E raw \in RawFields : de = [pc |-> "call", raw |-> raw]

DeserializeRun ==
    /\ de.pc = "call"
    /\ de' = [pc |-> "returned", raw |-> de.raw, result |-> deserialize(de.raw)]
    /\ UNCHANGED <<mrg, fg, registry, stack, outcome, sug, cell, callers>>

(***************************************************************************)
(* StandardLibrary::from_name and StandardLibrary::inflate                 *)
(***************************************************************************)
StandardLibrary(base, globals) == [base |-> base, globals |-> globals]

\* The arms of the names! table.
BuiltinNames == {"lua51", "lua52"}

\* The names a `base` key or a caller can give: the built-in ones and one
\* that no arm of names! matches.
LibraryNames == BuiltinNames \cup {"lua53"}

BaseOptions == {None} \cup {Some(n) : n \in LibraryNames}

\* Globals of a deserialized document (every Table has a child).
SampleGlobals ==
    { EmptyMap,
      [k \in {"a"} |-> Property("None")],
      [k \in {"a"} |-> Removed],
      [k \in {"a"} |-> Table([x \in {"b"} |-> Property("full")])],
      [k \in {"a"} |-> Table([x \in {"b"} |-> Removed])],
      [k \in {"a", "b"} |-> IF k = "a" THEN Function(<<>>, FALSE)
                            ELSE Table([x \in {"a"} |-> Property("None")])] }

Documents == {StandardLibrary(b, g) : b \in BaseOptions, g \in SampleGlobals}

\* toml::from_str::<StandardLibrary>(include_str!(path)) of an embedded text.
EmbeddedTexts == {Ok(d) : d \in Documents} \cup {Err("invalid document")}

\* Every content the two embedded files can have.
Registries == [BuiltinNames -> EmbeddedTexts]

\* The base chain of `name`, followed for at most n links, stays on texts that
\* deserialize and ends on one without a base.
RECURSIVE ChainEnds(_, _, _)
ChainEnds(reg, name, n) ==
    /\ name \in BuiltinNames
    /\ reg[name].kind = "Ok"
    /\ \/ reg[name].value.base = None
       \/ n > 0 /\ ChainEnds(reg, reg[name].value.base.value, n - 1)

\* The embedded files as shipped: tests::valid_serde loads each of them.
ShippedRegistries ==
    {reg \in Registries :
        \A name \in BuiltinNames : ChainEnds(reg, name, Cardinality(BuiltinNames))}

Frame(name, std) == [name |-> name, std |-> std, pc |-> "inflate"]

Top == stack[Len(stack)]

Idle == [kind |-> "idle"]

Running(call) == [kind |-> "running", call |-> call]

Finished(kind, value) == [kind |-> kind, call |-> outcome.call, value |-> value]

\* from_name whose fallback arm `_ => None` panics.
FromNameEnterStrict(name) ==
    IF name \notin BuiltinNames
    THEN Panic("no such standard library")
    ELSE IF registry[name].kind = "Err"
    THEN Panic("default standard library failed deserialization")
    ELSE Some(registry[name].value)

\* The body of from_name(name) up to its call of std.inflate(): None or a
\* panic, with which the call ends at once, or Some(std) to inflate.
FromNameEnter(name) ==
    IF name \notin BuiltinNames
    THEN None
    ELSE IF registry[name].kind = "Err"
    THEN Panic("default standard library failed deserialization")
    ELSE Some(registry[name].value)

\* A caller calls StandardLibrary::from_name(name).
FromName(name) ==
    /\ outcome = Idle
    /\ stack = <<>>
    /\ LET entered == FromNameEnter(name)
           call    == [fn |-> "from_name", name |-> name]
       IN  IF entered.kind \in {"None", "Panic"}
           THEN /\ outcome' = [kind |-> entered.kind, call |-> call, value |-> entered]
                /\ stack' = <<>>
           ELSE /\ outcome' = Running(call)
                /\ stack' = <<Frame(name, entered.value)>>
    /\ UNCHANGED <<mrg, fg, de, registry, sug, cell, callers>>

\* inflate runs on a deserialized description that is not an embedded one.
Inflate(std) ==
    /\ outcome = Idle
    /\ stack = <<>>
    /\ outcome' = Running([fn |-> "inflate", std |-> std])
    /\ stack' = <<Frame("custom", std)>>
    /\ UNCHANGED <<mrg, fg, de, registry, sug, cell, callers>>

\* inflate of the top frame reaches `if let Some(base) = &self.base` with a
\* base: it calls from_name(base), which returns None (the unwrap_or_else
\* panics), panics itself, or runs the base's own inflate in a new frame; a
\* full native stack ends the process.
ResolveBase ==
    /\ outcome.kind = "running"
    /\ stack # <<>>
    /\ Top.pc = "inflate"
    /\ Top.std.base # None
    /\ LET entered == FromNameEnter(Top.std.base.value)
       IN  IF entered.kind = "None"
           THEN /\ outcome' = Finished("Panic",
                       Panic("standard library based on a name which does not exist"))
                /\ stack' = <<>>
           ELSE IF entered.kind = "Panic"
           THEN /\ outcome' = Finished("Panic", entered)
                /\ stack' = <<>>
           ELSE IF Len(stack) >= MaxStack
           THEN /\ outcome' = Finished("StackOverflow", None)
                /\ stack' = <<>>
           ELSE /\ stack' = Append([stack EXCEPT ![Len(stack)].pc = "awaiting base"],
                                   Frame(Top.std.base.value, entered.value))
                /\ UNCHANGED outcome
    /\ UNCHANGED <<mrg, fg, de, registry, sug, cell, callers>>

\* What the frame below does with the base its from_name call returned:
\* globals = base.globals.clone(); merge(&mut globals, &mut self.globals);
\* self.globals = globals.
Merged(std, base) == StandardLibrary(std.base, merge(base.globals, std.globals))

\* The top frame's inflate is over (it had no base, or the merge below ran):
\* the frame returns, to the inflate that awaits it or to the caller.
Return ==
    /\ outcome.kind = "running"
    /\ stack # <<>>
    /\ (Top.pc = "inflate" /\ Top.std.base = None) \/ Top.pc = "merged"
    /\ IF Len(stack) = 1
       THEN /\ outcome' = Finished(IF outcome.call.fn = "from_name" THEN "Some" ELSE "Unit",
                                   Top.std)
            /\ stack' = <<>>
       ELSE /\ stack' = [SubSeq(stack, 1, Len(stack) - 1) EXCEPT
                            ![Len(stack) - 1].std = Merged(@, Top.std),
                            ![Len(stack) - 1].pc = "merged"]
            /\ UNCHANGED outcome
    /\ UNCHANGED <<mrg, fg, de, registry, sug, cell, callers>>

(***************************************************************************)
(* possible_standard_libraries and possible_standard_library_notes         *)
(***************************************************************************)
\* The bytes of the library names, which sort_unstable compares.
NameBytes(name) ==
    CASE name = "lua51"  -> <<108, 117, 97, 53, 49>>
      [] name = "lua52"  -> <<108, 117, 97, 53, 50>>
      [] name = "roblox" -> <<114, 111, 98, 108, 111, 120>>

\* Ord for str: byte by byte, a proper prefix first.
RECURSIVE BytesLess(_, _)
BytesLess(s, t) ==
    IF t = <<>> THEN FALSE
    ELSE IF s = <<>> THEN TRUE
    ELSE IF Head(s) # Head(t) THEN Head(s) < Head(t)
    ELSE BytesLess(Tail(s), Tail(t))

StrLess(a, b) == BytesLess(NameBytes(a), NameBytes(b))

RECURSIVE InsertSorted(_, _)
InsertSorted(sorted, x) ==
    IF sorted = <<>> THEN <<x>>
    ELSE IF StrLess(x, Head(sorted)) THEN <<x>> \o sorted
    ELSE <<Head(sorted)>> \o InsertSorted(Tail(sorted), x)

\* Vec::<&str>::sort_unstable
RECURSIVE sort_unstable(_)
sort_unstable(list) ==
    IF list = <<>> THEN <<>>
    ELSE InsertSorted(sort_unstable(Tail(list)), Head(list))

\* The orders in which iterating all_default_standard_libraries() can yield
\* the built-in libraries.
IterationOrders ==
    {o \in [1..Cardinality(BuiltinNames) -> BuiltinNames] :
        \A i, j \in DOMAIN o : i # j => o[i] # o[j]}

\* The root identifiers that count as found in the roblox library.
RobloxRoots == {"game", "plugin", "script", "workspace"}

\* Inflated globals of the scanned libraries.
ScanGlobals ==
    { EmptyMap,
      [k \in {"a"} |-> Property("None")],
      [k \in {"a"} |-> Table([x \in {"b"} |-> Function(<<>>, FALSE)])] }

ScanPaths == SeqsUpTo({"a", "b", "game"}, MaxPath)

\* The loop over all_default_standard_libraries(), from its i-th pair on.
RECURSIVE Scan(_, _, _, _)
Scan(defaults, order, name_path, i) ==
    IF i > Len(order) THEN <<>>
    ELSE (IF find_global(defaults[order[i]], name_path).kind = "Some"
          THEN <<order[i]>> ELSE <<>>)
         \o Scan(defaults, order, name_path, i + 1)

\* The block pushing "roblox" at the end of the list.
WithRobloxLast(list, roblox, name_path) ==
    IF roblox = None THEN list
    ELSE LET from_roblox_std ==
                 IF name_path[1] \in RobloxRoots THEN TRUE
                 ELSE find_global(roblox.value, name_path).kind = "Some"
         IN  IF from_roblox_std THEN list \o <<"roblox">> ELSE list

\* The cfg(feature = "roblox") block: roblox is None when the feature is
\* off, Some of the value of ROBLOX_BASE_STD when it is on.
WithRoblox(list, roblox, name_path) ==
    IF roblox = None THEN list
    ELSE LET from_roblox_std ==
                 IF name_path[1] \in RobloxRoots THEN TRUE
                 ELSE find_global(roblox.value, name_path).kind = "Some"
         IN  IF from_roblox_std THEN <<"roblox">> \o list ELSE list

possible_standard_libraries(defaults, order, roblox, name_path) ==
    IF name_path = <<>> THEN Panic("assertion failed: !name_path.is_empty()")
    ELSE Ok(WithRoblox(sort_unstable(Scan(defaults, order, name_path, 1)),
                       roblox, name_path))

RECURSIVE Join(_, _)
Join(strings, separator) ==
    IF strings = <<>> THEN ""
    ELSE IF Len(strings) = 1 THEN strings[1]
    ELSE strings[1] \o separator \o Join(Tail(strings), separator)

\* text::english_list
english_list(items) ==
    IF Len(items) = 1 THEN items[1]
    ELSE IF Len(items) = 2 THEN items[1] \o " and " \o items[2]
    ELSE Join(SubSeq(items, 1, Len(items) - 1), ", ")
         \o ", and " \o items[Len(items)]

\* text::plural
plural(count, singular, plurals) == IF count = 1 THEN singular ELSE plurals

\* The grave accent (U+0060) around the path of the first note; a string
\* literal here cannot hold that character.
Backtick == "'"

StdLine(library) == "std = \"" \o library \o "\""

StdLines(libraries) == [i \in DOMAIN libraries |-> StdLine(libraries[i])]

ConfigurationNote(libraries) ==
    "you can set the standard library by putting the following inside selene.toml:\n"
    \o Join(StdLines(libraries), "\n")

\* The body that pushes the configuration note whatever standard_library_is_set is.
NotesForAlways(name_path, standard_library_is_set, libraries) ==
    IF libraries = <<>> THEN <<>>
    ELSE << Backtick \o Join(name_path, ".") \o Backtick \o " was found in the "
            \o english_list(libraries) \o " standard libar"
            \o plural(Len(libraries), "y", "ies") >>
         \o <<ConfigurationNote(libraries)>>

\* The body of possible_standard_library_notes after the match list is built.
NotesFor(name_path, standard_library_is_set, libraries) ==
    IF libraries = <<>> THEN <<>>
    ELSE << Backtick \o Join(name_path, ".") \o Backtick \o " was found in the "
            \o english_list(libraries) \o " standard libar"
            \o plural(Len(libraries), "y", "ies") >>
         \o (IF ~standard_library_is_set
             THEN <<ConfigurationNote(libraries)>>
             ELSE <<>>)

SugIdle == [pc |-> "idle"]

NotesInit ==
    \E d \in [BuiltinNames -> ScanGlobals], o \in IterationOrders,
       r \in {None} \cup {Some(g) : g \in ScanGlobals},
       p \in ScanPaths, set \in BOOLEAN :
        sug = [pc |-> "call", defaults |-> d, order |-> o, roblox |-> r,
               name_path |-> p, standard_library_is_set |-> set]

\* One call of possible_standard_library_notes(name_path, standard_library_is_set).
NotesRun ==
    /\ sug.pc = "call"
    /\ LET found == possible_standard_libraries(sug.defaults, sug.order,
                                                sug.roblox, sug.name_path)
           base  == [pc |-> "returned", defaults |-> sug.defaults, order |-> sug.order,
                     roblox |-> sug.roblox, name_path |-> sug.name_path,
                     standard_library_is_set |-> sug.standard_library_is_set]
       IN  sug' = IF found.kind = "Panic"
                  THEN base @@ [result |-> found, libraries |-> <<>>]
                  ELSE base @@ [result |-> Ok(NotesFor(sug.name_path,
                                                      sug.standard_library_is_set,
                                                      found.value)),
                                libraries |-> found.value]
    /\ UNCHANGED <<mrg, fg, de, registry, stack, outcome, cell, callers>>

(***************************************************************************)
(* static ROBLOX_BASE_STD: OnceCell<StandardLibrary>, under concurrent      *)
(* callers of possible_standard_libraries (feature "roblox")               *)
(***************************************************************************)
Threads == 1..NumCallers

\* The value a run of StandardLibrary::roblox_base by thread t builds.
roblox_base(t) ==
    [std |-> StandardLibrary(None,
                 [k \in {"a"} |-> Table([x \in {"b"} |-> Function(<<>>, FALSE)])]),
     computed_by |-> t]

CallerPaths == {<<"game">>, <<"a">>, <<"a", "b">>, <<"b">>}

CallerIdle == [pc |-> "idle"]

CellEmpty == [state |-> "Incomplete", value |-> None, runs |-> 0]

\* OnceCell::get: the value once the cell is complete.
get(c) == IF c.state = "Complete" THEN c.value ELSE None

\* A get_or_init that runs its closure whenever the cell holds no value yet.
may_initialize_racy(c) == c.state # "Complete"

\* The slow path of get_or_init takes the cell only from Incomplete.
may_initialize(c) == c.state = "Incomplete"

\* A thread enters possible_standard_libraries(name_path) and reaches the
\* match on name_path[0].
Enter(t, name_path) ==
    /\ callers[t].pc = "idle"
    /\ callers' = [callers EXCEPT ![t] =
           IF name_path[1] \in RobloxRoots
           THEN [pc |-> "done", name_path |-> name_path, roblox_std |-> None,
                 from_roblox_std |-> TRUE]
           ELSE [pc |-> "get_or_init", name_path |-> name_path, roblox_std |-> None]]
    /\ UNCHANGED <<mrg, fg, de, registry, stack, outcome, sug, cell>>

\* get_or_init finds the cell complete and returns the reference to its value.
GetOrInitFast(t) ==
    /\ callers[t].pc = "get_or_init"
    /\ get(cell) # None
    /\ callers' = [callers EXCEPT ![t].pc = "have", ![t].roblox_std = get(cell)]
    /\ UNCHANGED <<mrg, fg, de, registry, stack, outcome, sug, cell>>

\* get_or_init takes the cell to run StandardLibrary::roblox_base; a thread
\* that finds the cell taken waits.
GetOrInitClaim(t) ==
    /\ callers[t].pc = "get_or_init"
    /\ get(cell) = None
    /\ may_initialize(cell)
    /\ cell' = [cell EXCEPT !.state = "Running", !.runs = @ + 1]
    /\ callers' = [callers EXCEPT ![t].pc = "init"]
    /\ UNCHANGED <<mrg, fg, de, registry, stack, outcome, sug>>

\* roblox_base returns and its value is written into the cell's slot.
InitWrite(t) ==
    /\ callers[t].pc = "init"
    /\ cell' = [cell EXCEPT !.value = Some(roblox_base(t))]
    /\ callers' = [callers EXCEPT ![t].pc = "publish"]
    /\ UNCHANGED <<mrg, fg, de, registry, stack, outcome, sug>>

\* The cell is marked complete, the waiters wake, and get_or_init returns the
\* reference to the value.
InitPublish(t) ==
    /\ callers[t].pc = "publish"
    /\ cell' = [cell EXCEPT !.state = "Complete"]
    /\ callers' = [callers EXCEPT ![t].pc = "have", ![t].roblox_std = cell.value]
    /\ UNCHANGED <<mrg, fg, de, registry, stack, outcome, sug>>

\* roblox_std.find_global(name_path).is_some()
Lookup(t) ==
    /\ callers[t].pc = "have"
    /\ callers' = [callers EXCEPT ![t] =
           [pc |-> "done", name_path |-> callers[t].name_path,
            roblox_std |-> callers[t].roblox_std,
            from_roblox_std |->
                find_global(callers[t].roblox_std.value.std.globals,
                            callers[t].name_path).kind = "Some"]]
    /\ UNCHANGED <<mrg, fg, de, registry, stack, outcome, sug, cell>>

OnceIdle == cell = CellEmpty /\ callers = [t \in Threads |-> CallerIdle]

(***************************************************************************)
(* Specifications                                                          *)
(***************************************************************************)
ResolveIdle ==
    /\ registry = [name \in BuiltinNames |-> Ok(StandardLibrary(None, EmptyMap))]
    /\ stack = <<>>
    /\ outcome = Idle

\* from_name and inflate over every content of the embedded files.
Init ==
    /\ registry \in Registries
    /\ stack = <<>>
    /\ outcome = Idle
    /\ mrg = MrgIdle /\ fg = FgIdle /\ de = DeIdle /\ sug = SugIdle
    /\ OnceIdle

Next ==
    \/ \E name \in LibraryNames : FromName(name)
    \/ \E std \in Documents : Inflate(std)
    \/ ResolveBase
    \/ Return

Spec == Init /\ [][Next]_vars

\* from_name and inflate over the embedded files as shipped.
InitShipped ==
    /\ registry \in ShippedRegistries
    /\ stack = <<>>
    /\ outcome = Idle
    /\ mrg = MrgIdle /\ fg = FgIdle /\ de = DeIdle /\ sug = SugIdle
    /\ OnceIdle

SpecShipped == InitShipped /\ [][Next]_vars

\* merge over every pair of maps.
InitMerge ==
    /\ MergeInit
    /\ fg = FgIdle /\ de = DeIdle /\ sug = SugIdle
    /\ ResolveIdle /\ OnceIdle

SpecMerge == InitMerge /\ [][MergeRun]_vars

\* find_global over every map and path.
InitFind ==
    /\ FindInit
    /\ mrg = MrgIdle /\ de = DeIdle /\ sug = SugIdle
    /\ ResolveIdle /\ OnceIdle

SpecFind == InitFind /\ [][FindRun]_vars

\* Field::deserialize over every raw entry.
InitDeserialize ==
    /\ DeserializeInit
    /\ mrg = MrgIdle /\ fg = FgIdle /\ sug = SugIdle
    /\ ResolveIdle /\ OnceIdle

SpecDeserialize == InitDeserialize /\ [][DeserializeRun]_vars

\* possible_standard_library_notes over every scanned library set and path.
InitNotes ==
    /\ NotesInit
    /\ mrg = MrgIdle /\ fg = FgIdle /\ de = DeIdle
    /\ ResolveIdle /\ OnceIdle

SpecNotes == InitNotes /\ [][NotesRun]_vars

\* Concurrent callers of possible_standard_libraries around ROBLOX_BASE_STD.
InitOnce ==
    /\ OnceIdle
    /\ mrg = MrgIdle /\ fg = FgIdle /\ de = DeIdle /\ sug = SugIdle
    /\ ResolveIdle

NextOnce ==
    \E t \in Threads :
        \/ \E p \in CallerPaths : Enter(t, p)
        \/ GetOrInitFast(t)
        \/ GetOrInitClaim(t)
        \/ InitWrite(t)
        \/ InitPublish(t)
        \/ Lookup(t)

SpecOnce == InitOnce /\ [][NextOnce]_vars

(***************************************************************************)
(* Reference definitions the properties are stated with                    *)
(***************************************************************************)
RECURSIVE NoRemoved(_)
NoRemoved(m) ==
    \A k \in DOMAIN m :
        /\ m[k] # Removed
        /\ m[k].kind = "Table" => NoRemoved(m[k].children)

\* The merge rule, key by key.
RECURSIVE RefMerge(_, _)
RefMerge(seed, overriding) ==
    LET deleted == {k \in DOMAIN overriding : overriding[k] = Removed}
        kept    == (DOMAIN seed \cup DOMAIN overriding) \ deleted
    IN  [k \in kept |->
            IF k \notin DOMAIN overriding THEN seed[k]
            ELSE IF k \in DOMAIN seed
                    /\ seed[k].kind = "Table" /\ overriding[k].kind = "Table"
                 THEN Table(RefMerge(seed[k].children, overriding[k].children))
                 ELSE overriding[k]]

Front(path) == SubSeq(path, 1, Len(path) - 1)

Last(path) == path[Len(path)]

\* The map reached by descending through every segment of `prefix`, None when
\* a segment is missing or is not a Table.
RECURSIVE MapAt(_, _)
MapAt(globals, prefix) ==
    IF prefix = <<>> THEN Some(globals)
    ELSE LET up == MapAt(globals, Front(prefix))
         IN  IF up = None THEN None
             ELSE IF Last(prefix) \notin DOMAIN up.value THEN None
             ELSE IF up.value[Last(prefix)].kind # "Table" THEN None
             ELSE Some(up.value[Last(prefix)].children)

\* The Field a non-empty path denotes, None when it denotes none.
FieldAt(globals, path) ==
    LET m == MapAt(globals, Front(path))
    IN  IF m = None THEN None
        ELSE IF Last(path) \in DOMAIN m.value THEN Some(m.value[Last(path)])
        ELSE None

\* The globals of the built-in `name`, its base chain (of at most n links) folded in.
RECURSIVE RefInflate(_, _, _)
RefInflate(reg, name, n) ==
    LET doc == reg[name].value
    IN  IF doc.base = None \/ n = 0 THEN doc.globals
        ELSE RefMerge(RefInflate(reg, doc.base.value, n - 1), doc.globals)

\* The built-in libraries of the scan that resolve its path, and whether the
\* roblox library counts as resolving it.
BuiltinMatches ==
    {n \in BuiltinNames : FieldAt(sug.defaults[n], sug.name_path) # None}

RobloxMatches ==
    /\ sug.roblox # None
    /\ \/ sug.name_path[1] \in RobloxRoots
       \/ FieldAt(sug.roblox.value, sug.name_path) # None

RECURSIVE RefStdLines(_)
RefStdLines(libraries) ==
    IF Len(libraries) = 1 THEN "std = \"" \o libraries[1] \o "\""
    ELSE "std = \"" \o libraries[1] \o "\"\n" \o RefStdLines(Tail(libraries))

(***************************************************************************)
(* Properties                                                              *)
(***************************************************************************)
\* C1: the globals of every library that from_name or inflate produced hold no
\* Field::Removed at any nesting depth.
C1_NoRemovedAfterInflate ==
    outcome.kind \in {"Some", "Unit"} => NoRemoved(outcome.value.globals)

\* C2: merge(seed, override) is the key-by-key rule (an overriding Removed
\* deletes the key, Table against Table merges the children and stays a Table,
\* any other overriding value replaces, seed-only keys stay), and the example
\* of the description comes out as stated.
C2_MergeIsKeyByKeyRule ==
    mrg.pc = "returned" =>
        /\ mrg.into = RefMerge(mrg.seed, mrg.overriding)
        /\ (mrg.seed = ExampleBase /\ mrg.overriding = ExampleOverride)
               => mrg.into = ExampleMerged

C2_Witness ==
    /\ mrg.pc = "returned"
    /\ mrg.seed = ExampleBase
    /\ mrg.overriding = ExampleOverride
    /\ mrg.into = ExampleMerged

\* C3: for a non-empty path find_global returns the Field under the last
\* segment of the map reached through all earlier segments, and not-found when
\* an earlier segment is missing or not a Table or the last one is absent.
C3_FindGlobalFollowsWholePath ==
    (fg.pc = "returned" /\ fg.names # <<>>) =>
        fg.result = FieldAt(fg.globals, fg.names)

C3_Witness ==
    /\ fg.pc = "returned"
    /\ fg.names = <<"a", "b", "x">>
    /\ "a" \in DOMAIN fg.globals
    /\ fg.globals["a"].kind = "Table"
    /\ "b" \in DOMAIN fg.globals["a"].children
    /\ fg.globals["a"].children["b"].kind = "Property"
    /\ fg.result = None

\* C4: a circular base chain is detected: no name is under resolution twice
\* at once, and the recursion never exhausts the native stack.
C4_CircularBaseIsDetected ==
    /\ \A i, j \in DOMAIN stack : i < j => stack[i].name # stack[j].name
    /\ outcome.kind # "StackOverflow"

\* C5: inflate of a custom description whose base is no registered library
\* ends with an error value for the caller, neither a panic nor a success.
C5_UnknownBaseIsRecoverable ==
    ( /\ outcome.kind \notin {"idle", "running"}
      /\ outcome.call.fn = "inflate"
      /\ outcome.call.std.base # None
      /\ outcome.call.std.base.value \notin BuiltinNames )
    => outcome.kind = "Err"

C7_FromNameResolvesBuiltins ==
    (outcome.kind # "idle" /\ outcome.call.fn = "from_name") =>
        IF outcome.call.name \in BuiltinNames
        THEN /\ outcome.kind \in {"running", "Some"}
             /\ outcome.kind = "Some" =>
                    outcome.value =
                        StandardLibrary(
                            registry[outcome.call.name].value.base,
                            RefInflate(registry, outcome.call.name,
                                       Cardinality(BuiltinNames)))
        ELSE outcome.kind = "None" /\ stack = <<>>

C7_Witness ==
    /\ outcome.kind = "Some"
    /\ outcome.call.name = "lua52"
    /\ outcome.value.base = Some("lua51")
    /\ outcome.value.globals # registry["lua52"].value.globals
    /\ outcome.value.globals # registry["lua51"].value.globals

\* C8: for a non-empty path the call returns no note when no library matches,
\* one note when some match and a library is configured, two notes when some
\* match and none is configured; the second note lists one std = "<name>"
\* line per matched library in the order of the match list.
C8_NoteCount ==
    (sug.pc = "returned" /\ sug.name_path # <<>>) =>
        /\ sug.result.kind = "Ok"
        /\ LET notes   == sug.result.value
               matched == BuiltinMatches # {} \/ RobloxMatches
           IN  /\ ~matched => notes = <<>>
               /\ (matched /\ sug.standard_library_is_set) => Len(notes) = 1
               /\ (matched /\ ~sug.standard_library_is_set) =>
                      /\ Len(notes) = 2
                      /\ notes[2] =
                             "you can set the standard library by putting the following inside selene.toml:\n"
                             \o RefStdLines(sug.libraries)

C8_Witness ==
    /\ sug.pc = "returned"
    /\ Len(sug.libraries) = 3
    /\ sug.standard_library_is_set
    /\ Len(sug.result.value) = 1

\* C9: the match list is the built-in names whose library resolves the path,
\* in lexicographic order, with "roblox" before them when the roblox library
\* is configured and matches.
C9_MatchListOrder ==
    (sug.pc = "returned" /\ sug.name_path # <<>>) =>
        LET libs == sug.libraries
            rest == IF RobloxMatches THEN Tail(libs) ELSE libs
        IN  /\ RobloxMatches => (libs # <<>> /\ libs[1] = "roblox")
            /\ {rest[i] : i \in DOMAIN rest} = BuiltinMatches
            /\ Len(rest) = Cardinality(BuiltinMatches)
            /\ \A i, j \in DOMAIN rest : i < j => StrLess(rest[i], rest[j])

C9_Witness ==
    /\ sug.pc = "returned"
    /\ sug.order = <<"lua52", "lua51">>
    /\ sug.name_path # <<>>
    /\ sug.name_path[1] \notin RobloxRoots
    /\ sug.libraries = <<"roblox", "lua51", "lua52">>

\* C10: roblox_base runs at most once, whatever the interleaving; a caller
\* holds a value only of the completed cell, every holder holds the one
\* published value, and no caller looks up in an unset value.
C10_ComputeOncePublishMany ==
    /\ cell.runs <= 1
    /\ cell.state = "Complete" => (cell.runs = 1 /\ cell.value # None)
    /\ \A t \in Threads :
           (callers[t].pc = "have"
              \/ (callers[t].pc = "done" /\ callers[t].roblox_std # None))
           => /\ cell.state = "Complete"
              /\ callers[t].roblox_std # None
              /\ callers[t].roblox_std = cell.value

C10_Witness ==
    \E t, u \in Threads :
        /\ t # u
        /\ callers[t].pc = "done" /\ callers[u].pc = "done"
        /\ callers[t].roblox_std # None
        /\ callers[t].roblox_std.value.computed_by = u
        /\ callers[u].roblox_std = callers[t].roblox_std
        /\ cell.runs = 1

====
